---- MODULE Spec2Model ----
(***************************************************************************)
(* gogs-mirror (src/mirror.go, second revision, lines 211-486): list the   *)
(* repositories of a GitHub account, filter them, and migrate each to a    *)
(* Gogs instance with one goroutine per candidate, throttled by a buffered *)
(* channel used as a counting semaphore and joined by a WaitGroup.         *)
(*                                                                         *)
(* Strings are TLA+ strings; a Go index s[a:b] is SubSeq(s, a+1, b).       *)
(* Slices are sequences indexed from 1 (Go index v is v+1 here).           *)
(* Repository descriptions are byte sequences (sequences of integers).     *)
(*                                                                         *)
(* The two remote services are the environment: each remote call is one    *)
(* atomic step whose outcome (success or error) is chosen                  *)
(* nondeterministically among the outcomes the service can return.         *)
(***************************************************************************)
EXTENDS Integers, Sequences, FiniteSets, TLC

(***************************************************************************)
(* Bounds.  The code's limiter holds 10 tokens (mirror.go:416) and asks    *)
(* for 100 repositories per page (mirror.go:328); the model keeps both as  *)
(* parameters and checks them at small values, so that "more candidates    *)
(* than tokens" and "more than one page" happen with few repositories.     *)
(***************************************************************************)
concurrency == 2
PerPage == 1
NumRepos == 3
MaxRuns == 2
MaxDescLen == 257

(* mirror.go:425-426: descriptions longer than 255 bytes are cut to 255 *)
DescLimit == 255

(***************************************************************************)
(* regexp.Compile and Regexp.Match, for the fragment of the syntax the     *)
(* model uses: literal characters, "." (any character), and a postfix "*". *)
(* A "*" with nothing to repeat, or directly after another "*", is a       *)
(* syntax error.  Match is unanchored: it succeeds if the pattern matches  *)
(* any substring.  A compiled expression is represented by its source.     *)
(***************************************************************************)
Ch(s, k) == SubSeq(s, k, k)

CompileOK(p) ==
  \A k \in 1..Len(p) : Ch(p, k) = "*" => (k > 1 /\ Ch(p, k - 1) # "*")

CharMatch(c, d) == c = "." \/ c = d

RECURSIVE MatchAt(_, _, _, _)
MatchAt(re, k, s, j) ==
  IF k > Len(re) THEN TRUE
  ELSE IF k + 1 <= Len(re) /\ Ch(re, k + 1) = "*"
       THEN \/ MatchAt(re, k + 2, s, j)
            \/ /\ j <= Len(s)
               /\ CharMatch(Ch(re, k), Ch(s, j))
               /\ MatchAt(re, k, s, j + 1)
       ELSE /\ j <= Len(s)
            /\ CharMatch(Ch(re, k), Ch(s, j))
            /\ MatchAt(re, k + 1, s, j + 1)

Match(re, s) == \E j \in 1..(Len(s) + 1) : MatchAt(re, 1, s, j)

(***************************************************************************)
(* The source service's repositories.  Repo(...) is a                      *)
(* githubapi.Repository with the fields main reads; Description is a       *)
(* pointer that may be nil (present = FALSE).                              *)
(***************************************************************************)
Repo(owner, name, desc, hasDesc, private, fork) ==
  [FullName |-> owner \o "/" \o name, Name |-> name,
   CloneURL |-> "https://gh/" \o owner \o "/" \o name \o ".git",
   Description |-> [present |-> hasDesc, val |-> desc],
   Private |-> private, Fork |-> fork]

Bytes(n) == [k \in 1..n |-> k % 7]


(***************************************************************************)
(* State.                                                                  *)
(*   flags     the parsed command line (the package-level flag variables)  *)
(*   ghRepos, ghIsOrg   the source service: the account's repositories in  *)
(*             listing order, and whether the account is an organization   *)
(*   dest      the target service: the (owner, name) pairs that exist      *)
(*   run, prevCreated   which execution of the program this is, and the    *)
(*             candidates whose migration succeeded in the previous one    *)
(*   pc ... gogsOwnerName   main's position and its setup-phase locals     *)
(*   bar ... dumped         main's dispatch-phase locals                   *)
(*   taskpc ... sent        per goroutine: position, captured request,     *)
(*             the local gogsRepo, and a record of its remote calls        *)
(***************************************************************************)
VARIABLES flags, ghRepos, ghIsOrg, dest, run, prevCreated,
          pc, fatalMsg, argi, includeFilter, excludeFilter,
          githubTokenUser, githubUserIsOrg, listOpts, repos, pagesRequested,
          gogsOwnerID, gogsOwnerName,
          bar, wg, sem, gogsRepos, i, opts, dumped,
          taskpc, taskOpts, gogsRepo, lookups, migrates,
          lookupRes, migrateRes, sent

envVars   == <<flags, ghRepos, ghIsOrg, dest, run, prevCreated>>
setupVars == <<argi, includeFilter, excludeFilter, githubTokenUser,
               githubUserIsOrg, listOpts, repos, pagesRequested,
               gogsOwnerID, gogsOwnerName>>
loopVars  == <<bar, wg, sem, gogsRepos, i, opts, dumped>>
taskVars  == <<taskpc, taskOpts, gogsRepo, lookups, migrates,
               lookupRes, migrateRes, sent>>
vars == <<envVars, pc, fatalMsg, setupVars, loopVars, taskVars>>

(* mirror.go:230-246: the flag variables *)
dryRun         == flags.dryRun
mirror         == flags.mirror
includeForks   == flags.includeForks
workaround1862 == flags.workaround1862
gogsUser       == flags.gogsUser
gogsOrg        == flags.gogsOrg
githubToken    == flags.githubToken
githubUser     == flags.githubUser
Args           == flags.args

(* the zero value of gogsapi.MigrateRepoOption, and a nil *gogsapi.Repository *)
NoOpts == [CloneAddr |-> "", AuthUsername |-> "", AuthPassword |-> "",
           UID |-> 0, RepoName |-> "", Description |-> <<>>,
           Private |-> FALSE, Mirror |-> FALSE]
NilRepo == <<>>
NilBar == [created |-> FALSE, Total |-> 0, current |-> 0, updated |-> FALSE]

(* the state of a process that has just started main (mirror.go:278) *)
ProcessStart ==
  /\ pc = "parse"
  /\ fatalMsg = ""
  /\ argi = 1
  /\ includeFilter = <<>>
  /\ excludeFilter = <<>>
  /\ githubTokenUser = ""
  /\ githubUserIsOrg = FALSE
  /\ listOpts = [Page |-> 0, PerPage |-> PerPage]
  /\ repos = <<>>
  /\ pagesRequested = <<>>
  /\ gogsOwnerID = 0
  /\ gogsOwnerName = ""
  /\ bar = NilBar
  /\ wg = 0
  /\ sem = 0
  /\ gogsRepos = <<>>
  /\ i = 1
  /\ opts = NoOpts
  /\ dumped = <<>>
  /\ taskpc = <<>>
  /\ taskOpts = <<>>
  /\ gogsRepo = <<>>
  /\ lookups = <<>>
  /\ migrates = <<>>
  /\ lookupRes = <<>>
  /\ migrateRes = <<>>
  /\ sent = <<>>

InitWith(f, rs, isOrg, d) ==
  /\ flags = f
  /\ ghRepos = rs
  /\ ghIsOrg = isOrg
  /\ dest = d
  /\ run = 1
  /\ prevCreated = {}
  /\ ProcessStart

Fatal(msg) == pc' = "fatal" /\ fatalMsg' = msg

(* variant: the negation marker is left on the pattern *)
ParseFilter_NoStrip ==
  /\ pc = "parse"
  /\ argi <= Len(Args)
  /\ LET arg    == Args[argi]
         first  == IF Len(arg) > 0 /\ Ch(arg, 1) = "-" THEN "-" ELSE ""
         filter == arg
     IN  IF Len(arg) = 0
         THEN /\ pc' = "panic"
              /\ UNCHANGED <<fatalMsg, argi, includeFilter, excludeFilter>>
         ELSE IF ~CompileOK(filter)
         THEN /\ Fatal("could not parse")
              /\ UNCHANGED <<argi, includeFilter, excludeFilter>>
         ELSE /\ argi' = argi + 1
              /\ IF first = "-"
                 THEN /\ excludeFilter' = Append(excludeFilter, filter)
                      /\ UNCHANGED includeFilter
                 ELSE /\ includeFilter' = Append(includeFilter, filter)
                      /\ UNCHANGED excludeFilter
              /\ UNCHANGED <<pc, fatalMsg>>
  /\ UNCHANGED <<envVars, githubTokenUser, githubUserIsOrg, listOpts, repos,
                 pagesRequested, gogsOwnerID, gogsOwnerName, loopVars, taskVars>>

(***************************************************************************)
(* mirror.go:285-303: one iteration of the loop over flag.Args().          *)
(* filter[0:1] of an empty argument is out of range: the process panics.   *)
(***************************************************************************)
ParseFilter ==
  /\ pc = "parse"
  /\ argi <= Len(Args)
  /\ LET arg    == Args[argi]
         first  == IF Len(arg) > 0 /\ Ch(arg, 1) = "-" THEN "-" ELSE ""
         filter == IF first = "-" THEN SubSeq(arg, 2, Len(arg)) ELSE arg
     IN  IF Len(arg) = 0
         THEN /\ pc' = "panic"
              /\ UNCHANGED <<fatalMsg, argi, includeFilter, excludeFilter>>
         ELSE IF ~CompileOK(filter)
         THEN /\ Fatal("could not parse")
              /\ UNCHANGED <<argi, includeFilter, excludeFilter>>
         ELSE /\ argi' = argi + 1
              /\ IF first = "-"
                 THEN /\ excludeFilter' = Append(excludeFilter, filter)
                      /\ UNCHANGED includeFilter
                 ELSE /\ includeFilter' = Append(includeFilter, filter)
                      /\ UNCHANGED excludeFilter
              /\ UNCHANGED <<pc, fatalMsg>>
  /\ UNCHANGED <<envVars, githubTokenUser, githubUserIsOrg, listOpts, repos,
                 pagesRequested, gogsOwnerID, gogsOwnerName, loopVars, taskVars>>

(* mirror.go:305-312: the loop is over; the two API clients are created *)
NewClients ==
  /\ pc = "parse"
  /\ argi > Len(Args)
  /\ pc' = "tokenUser"
  /\ UNCHANGED <<envVars, fatalMsg, setupVars, loopVars, taskVars>>

(* mirror.go:314-318: github.Users.Get(ctx, ""), the owner of the token *)
GetTokenUser ==
  /\ pc = "tokenUser"
  /\ \/ /\ githubTokenUser' = "me"
        /\ pc' = "sourceUser"
        /\ UNCHANGED fatalMsg
     \/ /\ Fatal("couldn't fetch GitHub user")
        /\ UNCHANGED githubTokenUser
  /\ UNCHANGED <<envVars, argi, includeFilter, excludeFilter, githubUserIsOrg,
                 listOpts, repos, pagesRequested, gogsOwnerID, gogsOwnerName,
                 loopVars, taskVars>>

(* mirror.go:320-324: github.Users.Get(ctx, githubUser), the source account *)
GetSourceUser ==
  /\ pc = "sourceUser"
  /\ \/ /\ githubUserIsOrg' = ghIsOrg
        /\ pc' = "list"
        /\ UNCHANGED fatalMsg
     \/ /\ Fatal("couldn't fetch GitHub user")
        /\ UNCHANGED githubUserIsOrg
  /\ UNCHANGED <<envVars, argi, includeFilter, excludeFilter, githubTokenUser,
                 listOpts, repos, pagesRequested, gogsOwnerID, gogsOwnerName,
                 loopVars, taskVars>>


(***************************************************************************)
(* The source service's answer to a listing request for page `page` with   *)
(* PerPage items per page: the items of that page and the next-page cursor *)
(* (0 when there is no further page).  Page 0 is the first page.           *)
(***************************************************************************)
ServicePage(rs, page) ==
  LET p  == IF page = 0 THEN 1 ELSE page
      lo == (p - 1) * PerPage + 1
      hi == IF p * PerPage < Len(rs) THEN p * PerPage ELSE Len(rs)
  IN  [pageRepos |-> SubSeq(rs, lo, hi),
       NextPage  |-> IF p * PerPage < Len(rs) THEN p + 1 ELSE 0]

(* variant: one matching include pattern is enough *)
Passes_Any(include, exclude, fullName) ==
  /\ \/ Len(include) = 0
     \/ \E k \in 1..Len(include) : Match(include[k], fullName)
  /\ \A k \in 1..Len(exclude) : ~Match(exclude[k], fullName)

(* mirror.go:360-374: the include loop and the exclude loop of repoLoop *)
Passes(include, exclude, fullName) ==
  /\ \A k \in 1..Len(include) : Match(include[k], fullName)
  /\ \A k \in 1..Len(exclude) : ~Match(exclude[k], fullName)

(* variant: forks are kept whatever the fork-inclusion flag *)
KeepRepo_ForksKept(repo) ==
  /\ Passes(includeFilter, excludeFilter, repo.FullName)

(* mirror.go:355-378: the body of repoLoop, TRUE iff repo is appended *)
KeepRepo(repo) ==
  /\ ~(~includeForks /\ repo.Fork)
  /\ Passes(includeFilter, excludeFilter, repo.FullName)

(* variant: the loop is left on a zero cursor before the page is processed *)
ListPage_SkipLast ==
  /\ pc = "list"
  /\ pagesRequested' =
       Append(pagesRequested, [Page |-> listOpts.Page, byOrg |-> githubUserIsOrg])
  /\ \/ /\ Fatal("couldn't fetch GitHub repository list")
        /\ UNCHANGED <<repos, listOpts>>
     \/ LET resp == ServicePage(ghRepos, listOpts.Page)
        IN  /\ repos' = IF resp.NextPage = 0 THEN repos
                        ELSE repos \o SelectSeq(resp.pageRepos, KeepRepo)
            /\ listOpts' = [listOpts EXCEPT !.Page = resp.NextPage]
            /\ pc' = IF resp.NextPage = 0 THEN "resolve" ELSE "list"
            /\ UNCHANGED fatalMsg
  /\ UNCHANGED <<envVars, argi, includeFilter, excludeFilter, githubTokenUser,
                 githubUserIsOrg, gogsOwnerID, gogsOwnerName, loopVars, taskVars>>

(***************************************************************************)
(* mirror.go:333-384: one iteration of the paging loop: request the page   *)
(* at listOpts.Page from the endpoint chosen by githubUserIsOrg, abort on  *)
(* error, append the repositories that are kept, move the cursor, and      *)
(* leave the loop when the response has no next page.                      *)
(***************************************************************************)
ListPage ==
  /\ pc = "list"
  /\ pagesRequested' =
       Append(pagesRequested, [Page |-> listOpts.Page, byOrg |-> githubUserIsOrg])
  /\ \/ /\ Fatal("couldn't fetch GitHub repository list")
        /\ UNCHANGED <<repos, listOpts>>
     \/ LET resp == ServicePage(ghRepos, listOpts.Page)
        IN  /\ repos' = repos \o SelectSeq(resp.pageRepos, KeepRepo)
            /\ listOpts' = [listOpts EXCEPT !.Page = resp.NextPage]
            /\ pc' = IF resp.NextPage = 0 THEN "resolve" ELSE "list"
            /\ UNCHANGED fatalMsg
  /\ UNCHANGED <<envVars, argi, includeFilter, excludeFilter, githubTokenUser,
                 githubUserIsOrg, gogsOwnerID, gogsOwnerName, loopVars, taskVars>>

(* the identifiers the target service knows the destination owners by *)
UserID == 1
OrgID == 2

(***************************************************************************)
(* mirror.go:386-404: resolve the destination owner with one lookup,       *)
(* gogs.GetUserInfo(gogsUser) or gogs.GetOrg(gogsOrg); abort on error.     *)
(***************************************************************************)
ResolveOwner ==
  /\ pc = "resolve"
  /\ \/ /\ gogsOrg = ""
        /\ \/ /\ gogsOwnerID' = UserID
              /\ gogsOwnerName' = gogsUser
              /\ pc' = "startBar"
              /\ UNCHANGED fatalMsg
           \/ /\ Fatal("couldn't fetch Gogs user")
              /\ UNCHANGED <<gogsOwnerID, gogsOwnerName>>
     \/ /\ gogsOrg # ""
        /\ \/ /\ gogsOwnerID' = OrgID
              /\ gogsOwnerName' = gogsOrg
              /\ pc' = "startBar"
              /\ UNCHANGED fatalMsg
           \/ /\ Fatal("couldn't fetch Gogs Organization")
              /\ UNCHANGED <<gogsOwnerID, gogsOwnerName>>
  /\ UNCHANGED <<envVars, argi, includeFilter, excludeFilter, githubTokenUser,
                 githubUserIsOrg, listOpts, repos, pagesRequested,
                 loopVars, taskVars>>

(***************************************************************************)
(* mirror.go:406-418: create the progress bar unless dry-run, make the     *)
(* semaphore channel (empty, capacity concurrency) and the result slots,   *)
(* one per candidate, all nil.  The per-goroutine records are sized here.  *)
(***************************************************************************)
StartBar ==
  /\ pc = "startBar"
  /\ bar' = IF ~dryRun
            THEN [created |-> TRUE, Total |-> Len(repos), current |-> 0,
                  updated |-> FALSE]
            ELSE NilBar
  /\ sem' = 0
  /\ gogsRepos' = [v \in 1..Len(repos) |-> NilRepo]
  /\ i' = 1
  /\ taskpc' = [v \in 1..Len(repos) |-> "idle"]
  /\ taskOpts' = [v \in 1..Len(repos) |-> NoOpts]
  /\ gogsRepo' = [v \in 1..Len(repos) |-> NilRepo]
  /\ lookups' = [v \in 1..Len(repos) |-> 0]
  /\ migrates' = [v \in 1..Len(repos) |-> 0]
  /\ lookupRes' = [v \in 1..Len(repos) |-> "none"]
  /\ migrateRes' = [v \in 1..Len(repos) |-> "none"]
  /\ sent' = [v \in 1..Len(repos) |-> NoOpts]
  /\ pc' = "loop"
  /\ UNCHANGED <<envVars, fatalMsg, setupVars, wg, opts, dumped>>

(* variant: the length test is off by one *)
Truncate_Off(d) == IF Len(d) > DescLimit + 1 THEN SubSeq(d, 1, DescLimit) ELSE d

(* mirror.go:421-429: the description, empty when absent, cut to DescLimit *)
Truncate(d) == IF Len(d) > DescLimit THEN SubSeq(d, 1, DescLimit) ELSE d

RepoDescription(repo) ==
  IF repo.Description.present THEN Truncate(repo.Description.val) ELSE <<>>

(* mirror.go:431-440: the request object as first constructed *)
BuildOpts(repo) ==
  [CloneAddr    |-> repo.CloneURL,
   AuthUsername |-> githubTokenUser,
   AuthPassword |-> "",
   Private      |-> repo.Private,
   UID          |-> gogsOwnerID,
   RepoName     |-> repo.Name,
   Description  |-> RepoDescription(repo),
   Mirror       |-> mirror]

(* variant: the swap is written as two assignments in a row, so that the
   second one reads the value the first has just written *)
Swap1862_Sequential(o) == [o EXCEPT !.Mirror = o.Private]

(* mirror.go:449: opts.Mirror, opts.Private = opts.Private, opts.Mirror *)
Swap1862(o) == [o EXCEPT !.Mirror = o.Private, !.Private = o.Mirror]

(* mirror.go:447-450: the password is set, and the two flags are swapped
   under the workaround *)
LiveOpts(o) ==
  LET withPw == [o EXCEPT !.AuthPassword = githubToken]
  IN  IF workaround1862 THEN Swap1862(withPw) ELSE withPw

(* variant: dry-run dumps the request and goes on to dispatch it *)
LoopIter_NoContinue ==
  /\ pc = "loop"
  /\ i <= Len(repos)
  /\ LET o == BuildOpts(repos[i])
     IN  IF dryRun
         THEN /\ dumped' = Append(dumped, o)
              /\ opts' = LiveOpts(o)
              /\ wg' = wg + 1
              /\ pc' = "acquire"
              /\ UNCHANGED i
         ELSE /\ opts' = LiveOpts(o)
              /\ wg' = wg + 1
              /\ pc' = "acquire"
              /\ UNCHANGED <<dumped, i>>
  /\ UNCHANGED <<envVars, fatalMsg, setupVars, bar, sem, gogsRepos, taskVars>>

(***************************************************************************)
(* mirror.go:419-452: the body of the dispatch loop up to wg.Add(1).  In   *)
(* dry-run the request as first constructed is dumped and the loop         *)
(* continues with the next candidate; otherwise the request is completed   *)
(* and the WaitGroup counter is raised before the token is acquired.       *)
(***************************************************************************)
LoopIter ==
  /\ pc = "loop"
  /\ i <= Len(repos)
  /\ LET o == BuildOpts(repos[i])
     IN  IF dryRun
         THEN /\ dumped' = Append(dumped, o)
              /\ i' = i + 1
              /\ UNCHANGED <<pc, opts, wg>>
         ELSE /\ opts' = LiveOpts(o)
              /\ wg' = wg + 1
              /\ pc' = "acquire"
              /\ UNCHANGED <<dumped, i>>
  /\ UNCHANGED <<envVars, fatalMsg, setupVars, bar, sem, gogsRepos, taskVars>>

(* variant: the send does not wait for a free token *)
Acquire_NoBlock ==
  /\ pc = "acquire"
  /\ sem' = sem + 1
  /\ taskpc' = [taskpc EXCEPT ![i] = "getRepo"]
  /\ taskOpts' = [taskOpts EXCEPT ![i] = opts]
  /\ i' = i + 1
  /\ pc' = "loop"
  /\ UNCHANGED <<envVars, fatalMsg, setupVars, bar, wg, gogsRepos, opts, dumped,
                 gogsRepo, lookups, migrates, lookupRes, migrateRes, sent>>

(* variant: the goroutine migrates without looking the repository up first *)
Acquire_NoLookup ==
  /\ pc = "acquire"
  /\ sem < concurrency
  /\ sem' = sem + 1
  /\ taskpc' = [taskpc EXCEPT ![i] = "migrate"]
  /\ taskOpts' = [taskOpts EXCEPT ![i] = opts]
  /\ i' = i + 1
  /\ pc' = "loop"
  /\ UNCHANGED <<envVars, fatalMsg, setupVars, bar, wg, gogsRepos, opts, dumped,
                 gogsRepo, lookups, migrates, lookupRes, migrateRes, sent>>

(***************************************************************************)
(* mirror.go:453-475: sem <- true blocks while the channel is full; then   *)
(* the goroutine is started with the request and its slot index.           *)
(***************************************************************************)
Acquire ==
  /\ pc = "acquire"
  /\ sem < concurrency
  /\ sem' = sem + 1
  /\ taskpc' = [taskpc EXCEPT ![i] = "getRepo"]
  /\ taskOpts' = [taskOpts EXCEPT ![i] = opts]
  /\ i' = i + 1
  /\ pc' = "loop"
  /\ UNCHANGED <<envVars, fatalMsg, setupVars, bar, wg, gogsRepos, opts, dumped,
                 gogsRepo, lookups, migrates, lookupRes, migrateRes, sent>>


(* mirror.go:476-478: the dispatch loop is over; the final loop starts at 0 *)
LoopEnd ==
  /\ pc = "loop"
  /\ i > Len(repos)
  /\ i' = 0
  /\ pc' = "drain"
  /\ UNCHANGED <<envVars, fatalMsg, setupVars, bar, wg, sem, gogsRepos, opts,
                 dumped, taskVars>>

(* variant: the final sends do not wait for free tokens *)
Drain_NoBlock ==
  /\ pc = "drain"
  /\ i < concurrency
  /\ sem' = sem + 1
  /\ i' = i + 1
  /\ UNCHANGED <<envVars, pc, fatalMsg, setupVars, bar, wg, gogsRepos, opts,
                 dumped, taskVars>>

(* mirror.go:478-480: one sem <- true of the final loop, blocking while full *)
Drain ==
  /\ pc = "drain"
  /\ i < concurrency
  /\ sem < concurrency
  /\ sem' = sem + 1
  /\ i' = i + 1
  /\ UNCHANGED <<envVars, pc, fatalMsg, setupVars, bar, wg, gogsRepos, opts,
                 dumped, taskVars>>

(* mirror.go:478: the final loop ends after cap(sem) sends *)
DrainEnd ==
  /\ pc = "drain"
  /\ i >= concurrency
  /\ pc' = "wait"
  /\ UNCHANGED <<envVars, fatalMsg, setupVars, loopVars, taskVars>>

(* mirror.go:482: wg.Wait() returns when the counter is zero *)
Wait ==
  /\ pc = "wait"
  /\ wg = 0
  /\ pc' = "update"
  /\ UNCHANGED <<envVars, fatalMsg, setupVars, loopVars, taskVars>>

(* mirror.go:483-486: bar.Update() if there is a bar; main returns *)
BarUpdate ==
  /\ pc = "update"
  /\ bar' = IF bar.created THEN [bar EXCEPT !.updated = TRUE] ELSE bar
  /\ pc' = "done"
  /\ UNCHANGED <<envVars, fatalMsg, setupVars, wg, sem, gogsRepos, i, opts,
                 dumped, taskVars>>

(* the destination repository of candidate v: owner name and short name *)
DestKey(v) == <<gogsOwnerName, repos[v].Name>>

(* variant: a failed lookup aborts the process *)
GetRepo_Fatal(v) ==
  /\ taskpc[v] = "getRepo"
  /\ lookups' = [lookups EXCEPT ![v] = @ + 1]
  /\ \/ /\ DestKey(v) \in dest
        /\ lookupRes' = [lookupRes EXCEPT ![v] = "found"]
        /\ taskpc' = [taskpc EXCEPT ![v] = "increment"]
        /\ UNCHANGED <<pc, fatalMsg>>
     \/ /\ lookupRes' = [lookupRes EXCEPT ![v] =
                           IF DestKey(v) \in dest THEN "failed" ELSE "absent"]
        /\ taskpc' = [taskpc EXCEPT ![v] = "migrate"]
        /\ Fatal("couldn't fetch Gogs repository")
  /\ UNCHANGED <<envVars, setupVars, loopVars, taskOpts, gogsRepo,
                 migrates, migrateRes, sent>>

(* variant: a repository that is found is migrated all the same *)
GetRepo_NoSkip(v) ==
  /\ taskpc[v] = "getRepo"
  /\ lookups' = [lookups EXCEPT ![v] = @ + 1]
  /\ \/ /\ DestKey(v) \in dest
        /\ lookupRes' = [lookupRes EXCEPT ![v] = "found"]
        /\ taskpc' = [taskpc EXCEPT ![v] = "migrate"]
     \/ /\ lookupRes' = [lookupRes EXCEPT ![v] =
                           IF DestKey(v) \in dest THEN "failed" ELSE "absent"]
        /\ taskpc' = [taskpc EXCEPT ![v] = "migrate"]
  /\ UNCHANGED <<envVars, pc, fatalMsg, setupVars, loopVars, taskOpts, gogsRepo,
                 migrates, migrateRes, sent>>

(***************************************************************************)
(* mirror.go:460-466: gogs.GetRepo(gogsOwnerName, reposhortname).  The     *)
(* call can succeed only if the repository exists; it returns an error if  *)
(* it does not exist ("absent"), and may return one for any other reason  *)
(* ("failed"); the code sees only err # nil in both cases.  On success the *)
(* goroutine logs the skip and returns (its deferred calls follow).        *)
(***************************************************************************)
GetRepo(v) ==
  /\ taskpc[v] = "getRepo"
  /\ lookups' = [lookups EXCEPT ![v] = @ + 1]
  /\ \/ /\ DestKey(v) \in dest
        /\ lookupRes' = [lookupRes EXCEPT ![v] = "found"]
        /\ taskpc' = [taskpc EXCEPT ![v] = "increment"]
     \/ /\ lookupRes' = [lookupRes EXCEPT ![v] =
                           IF DestKey(v) \in dest THEN "failed" ELSE "absent"]
        /\ taskpc' = [taskpc EXCEPT ![v] = "migrate"]
  /\ UNCHANGED <<envVars, pc, fatalMsg, setupVars, loopVars, taskOpts, gogsRepo,
                 migrates, migrateRes, sent>>

(* variant: a failed migration aborts the process *)
MigrateRepo_Fatal(v) ==
  /\ taskpc[v] = "migrate"
  /\ migrates' = [migrates EXCEPT ![v] = @ + 1]
  /\ sent' = [sent EXCEPT ![v] = taskOpts[v]]
  /\ LET key == <<gogsOwnerName, taskOpts[v].RepoName>>
     IN  \/ /\ key \notin dest
            /\ dest' = dest \cup {key}
            /\ gogsRepo' = [gogsRepo EXCEPT ![v] = key]
            /\ migrateRes' = [migrateRes EXCEPT ![v] = "ok"]
            /\ taskpc' = [taskpc EXCEPT ![v] = "store"]
            /\ UNCHANGED <<pc, fatalMsg>>
         \/ /\ migrateRes' = [migrateRes EXCEPT ![v] = "err"]
            /\ taskpc' = [taskpc EXCEPT ![v] = "increment"]
            /\ UNCHANGED <<dest, gogsRepo>>
            /\ Fatal("failed to migrate repo")
  /\ UNCHANGED <<flags, ghRepos, ghIsOrg, run, prevCreated,
                 setupVars, loopVars, taskOpts, lookups, lookupRes>>

(* variant: a failed migration request is issued a second time *)
MigrateRepo_Retry(v) ==
  /\ taskpc[v] = "migrate"
  /\ migrates' = [migrates EXCEPT ![v] = @ + 1]
  /\ sent' = [sent EXCEPT ![v] = taskOpts[v]]
  /\ LET key == <<gogsOwnerName, taskOpts[v].RepoName>>
     IN  \/ /\ key \notin dest
            /\ dest' = dest \cup {key}
            /\ gogsRepo' = [gogsRepo EXCEPT ![v] = key]
            /\ migrateRes' = [migrateRes EXCEPT ![v] = "ok"]
            /\ taskpc' = [taskpc EXCEPT ![v] = "store"]
         \/ /\ migrateRes' = [migrateRes EXCEPT ![v] = "err"]
            /\ taskpc' = [taskpc EXCEPT ![v] =
                           IF migrates[v] < 1 THEN "migrate" ELSE "increment"]
            /\ UNCHANGED <<dest, gogsRepo>>
  /\ UNCHANGED <<flags, ghRepos, ghIsOrg, run, prevCreated, pc, fatalMsg,
                 setupVars, loopVars, taskOpts, lookups, lookupRes>>

(***************************************************************************)
(* mirror.go:468-472: gogs.MigrateRepo(opts).  The target creates the      *)
(* repository opts.RepoName under the owner opts.UID and returns it, or    *)
(* returns an error; it refuses a name that already exists.  On error the  *)
(* goroutine logs the failure and returns.                                 *)
(***************************************************************************)
MigrateRepo(v) ==
  /\ taskpc[v] = "migrate"
  /\ migrates' = [migrates EXCEPT ![v] = @ + 1]
  /\ sent' = [sent EXCEPT ![v] = taskOpts[v]]
  /\ LET key == <<gogsOwnerName, taskOpts[v].RepoName>>
     IN  \/ /\ key \notin dest
            /\ dest' = dest \cup {key}
            /\ gogsRepo' = [gogsRepo EXCEPT ![v] = key]
            /\ migrateRes' = [migrateRes EXCEPT ![v] = "ok"]
            /\ taskpc' = [taskpc EXCEPT ![v] = "store"]
         \/ /\ migrateRes' = [migrateRes EXCEPT ![v] = "err"]
            /\ taskpc' = [taskpc EXCEPT ![v] = "increment"]
            /\ UNCHANGED <<dest, gogsRepo>>
  /\ UNCHANGED <<flags, ghRepos, ghIsOrg, run, prevCreated, pc, fatalMsg,
                 setupVars, loopVars, taskOpts, lookups, lookupRes>>

(* variant: the slot index is main's loop variable, not the goroutine's own copy *)
Store_SharedIndex(v) ==
  /\ taskpc[v] = "store"
  /\ gogsRepos' = IF i \in DOMAIN gogsRepos
                  THEN [gogsRepos EXCEPT ![i] = gogsRepo[v]]
                  ELSE gogsRepos
  /\ taskpc' = [taskpc EXCEPT ![v] = "increment"]
  /\ UNCHANGED <<envVars, pc, fatalMsg, setupVars, bar, wg, sem, i, opts, dumped,
                 taskOpts, gogsRepo, lookups, migrates, lookupRes, migrateRes,
                 sent>>

(* mirror.go:474: gogsRepos[v] = gogsRepo *)
Store(v) ==
  /\ taskpc[v] = "store"
  /\ gogsRepos' = [gogsRepos EXCEPT ![v] = gogsRepo[v]]
  /\ taskpc' = [taskpc EXCEPT ![v] = "increment"]
  /\ UNCHANGED <<envVars, pc, fatalMsg, setupVars, bar, wg, sem, i, opts, dumped,
                 taskOpts, gogsRepo, lookups, migrates, lookupRes, migrateRes,
                 sent>>

(* variant: the bar advances only for a repository that was created *)
Increment_OnlyCreated(v) ==
  /\ taskpc[v] = "increment"
  /\ bar' = IF migrateRes[v] = "ok" THEN [bar EXCEPT !.current = @ + 1]
            ELSE bar
  /\ taskpc' = [taskpc EXCEPT ![v] = "wgDone"]
  /\ UNCHANGED <<envVars, pc, fatalMsg, setupVars, wg, sem, gogsRepos, i, opts,
                 dumped, taskOpts, gogsRepo, lookups, migrates, lookupRes,
                 migrateRes, sent>>

(* mirror.go:458: the deferred bar.Increment(), an atomic add *)
Increment(v) ==
  /\ taskpc[v] = "increment"
  /\ bar' = [bar EXCEPT !.current = @ + 1]
  /\ taskpc' = [taskpc EXCEPT ![v] = "wgDone"]
  /\ UNCHANGED <<envVars, pc, fatalMsg, setupVars, wg, sem, gogsRepos, i, opts,
                 dumped, taskOpts, gogsRepo, lookups, migrates, lookupRes,
                 migrateRes, sent>>

(* mirror.go:457: the deferred wg.Done() *)
WgDone(v) ==
  /\ taskpc[v] = "wgDone"
  /\ wg' = wg - 1
  /\ taskpc' = [taskpc EXCEPT ![v] = "release"]
  /\ UNCHANGED <<envVars, pc, fatalMsg, setupVars, bar, sem, gogsRepos, i, opts,
                 dumped, taskOpts, gogsRepo, lookups, migrates, lookupRes,
                 migrateRes, sent>>

(* variant: the goroutine returns without giving its token back *)
Release_NoReceive(v) ==
  /\ taskpc[v] = "release"
  /\ sem > 0
  /\ sem' = sem
  /\ taskpc' = [taskpc EXCEPT ![v] = "exited"]
  /\ UNCHANGED <<envVars, pc, fatalMsg, setupVars, bar, wg, gogsRepos, i, opts,
                 dumped, taskOpts, gogsRepo, lookups, migrates, lookupRes,
                 migrateRes, sent>>

(* mirror.go:456: the deferred <-sem, which gives the token back *)
Release(v) ==
  /\ taskpc[v] = "release"
  /\ sem > 0
  /\ sem' = sem - 1
  /\ taskpc' = [taskpc EXCEPT ![v] = "exited"]
  /\ UNCHANGED <<envVars, pc, fatalMsg, setupVars, bar, wg, gogsRepos, i, opts,
                 dumped, taskOpts, gogsRepo, lookups, migrates, lookupRes,
                 migrateRes, sent>>

(***************************************************************************)
(* The program is started again with the same command line against the     *)
(* same source account; the target keeps what the finished run created.    *)
(***************************************************************************)
Restart ==
  /\ pc = "done"
  /\ run < MaxRuns
  /\ run' = run + 1
  /\ prevCreated' = {v \in 1..Len(repos) : migrateRes[v] = "ok"}
  /\ pc' = "parse"
  /\ fatalMsg' = ""
  /\ argi' = 1
  /\ includeFilter' = <<>>
  /\ excludeFilter' = <<>>
  /\ githubTokenUser' = ""
  /\ githubUserIsOrg' = FALSE
  /\ listOpts' = [Page |-> 0, PerPage |-> PerPage]
  /\ repos' = <<>>
  /\ pagesRequested' = <<>>
  /\ gogsOwnerID' = 0
  /\ gogsOwnerName' = ""
  /\ bar' = NilBar
  /\ wg' = 0
  /\ sem' = 0
  /\ gogsRepos' = <<>>
  /\ i' = 1
  /\ opts' = NoOpts
  /\ dumped' = <<>>
  /\ taskpc' = <<>>
  /\ taskOpts' = <<>>
  /\ gogsRepo' = <<>>
  /\ lookups' = <<>>
  /\ migrates' = <<>>
  /\ lookupRes' = <<>>
  /\ migrateRes' = <<>>
  /\ sent' = <<>>
  /\ UNCHANGED <<flags, ghRepos, ghIsOrg, dest>>

Tasks == 1..Len(taskpc)

Next ==
  \/ ParseFilter
  \/ NewClients
  \/ GetTokenUser
  \/ GetSourceUser
  \/ ListPage
  \/ ResolveOwner
  \/ StartBar
  \/ LoopIter
  \/ Acquire
  \/ LoopEnd
  \/ Drain
  \/ DrainEnd
  \/ Wait
  \/ BarUpdate
  \/ \E v \in Tasks : GetRepo(v)
  \/ \E v \in Tasks : MigrateRepo(v)
  \/ \E v \in Tasks : Store(v)
  \/ \E v \in Tasks : Increment(v)
  \/ \E v \in Tasks : WgDone(v)
  \/ \E v \in Tasks : Release(v)
  \/ Restart


(***************************************************************************)
(* Initial states.  Every specification starts a first run of main; they   *)
(* differ in the command lines, source accounts and target contents they   *)
(* draw from.                                                              *)
(***************************************************************************)
BaseFlags ==
  [dryRun |-> FALSE, mirror |-> TRUE, includeForks |-> FALSE,
   workaround1862 |-> FALSE, gogsUser |-> "u", gogsOrg |-> "",
   githubToken |-> "t1", githubUser |-> "a", args |-> <<>>]

(* the k-th repository of the source account of the dispatch scenarios:
   a/app, b/app, a/s (a fork), b/s, ... *)
Catalog(k) ==
  Repo(IF k % 2 = 1 THEN "a" ELSE "b",
       IF ((k - 1) \div 2) % 2 = 0 THEN "app" ELSE "s",
       Bytes(k), k % 2 = 0, k % 2 = 0, k % 3 = 0)

MainArgs ==
  {<<>>, <<"a/.*", "-a/s">>, <<"a/">>, <<"*">>, <<"a/", "-a**">>, <<"">>}

(* destination owner, kind of the source account, and initial target
   contents: every combination for accounts of at most one repository,
   three representative ones for larger accounts, and for the largest
   account the user's empty target *)
Setups(n) ==
  IF n <= 1
  THEN {"", "org"} \X BOOLEAN \X {{}, {<<"u", "app">>}}
  ELSE IF n < NumRepos
  THEN {<<"", FALSE, {}>>, <<"", FALSE, {<<"u", "app">>}>>, <<"org", TRUE, {}>>}
  ELSE {<<"", FALSE, {}>>}

Init ==
  \E d \in BOOLEAN, fk \in BOOLEAN, a \in MainArgs, n \in 0..NumRepos :
    \E su \in Setups(n) :
      InitWith([BaseFlags EXCEPT !.dryRun = d, !.includeForks = fk,
                                 !.gogsOrg = su[1], !.args = a],
               [k \in 1..n |-> Catalog(k)], su[2], su[3])

Spec == Init /\ [][Next]_vars


(* the source account of the filter scenarios: the three repositories of
   the documented example, alone or together; the whole account is listed
   in dry-run mode, where the candidate list is all the run produces *)
FilterRepos ==
  <<Repo("acme", "app", <<>>, FALSE, FALSE, FALSE),
    Repo("acme", "secret", <<>>, FALSE, TRUE, FALSE),
    Repo("other", "app", <<>>, FALSE, FALSE, FALSE)>>

FilterServices == {<<FilterRepos[k]>> : k \in 1..3} \cup {FilterRepos}

FilterPatterns ==
  {"acme/.*", "-acme/secret", "app", "-app", ".*", "*", "-"}

MaxArgs == 2

FilterArgLists ==
  UNION {[1..n -> FilterPatterns] : n \in 0..MaxArgs} \cup {<<"">>}

InitFilter ==
  \E su \in {<<TRUE, "">>, <<FALSE, "org">>}, a \in FilterArgLists,
     rs \in FilterServices :
    /\ su[1] \/ Len(rs) <= 1
    /\ InitWith([BaseFlags EXCEPT !.dryRun = su[1], !.gogsOrg = su[2],
                                  !.args = a, !.githubUser = "acme"],
                rs, FALSE, {})

SpecFilter == InitFilter /\ [][Next]_vars

(* the source account of the request scenarios: one repository, with every
   visibility and with descriptions around the limit *)
DescLens == {0, 1, DescLimit - 1, DescLimit, DescLimit + 1, MaxDescLen}

OptsServices ==
  {<<Repo("a", "app", Bytes(n), TRUE, p, FALSE)>> :
     n \in DescLens, p \in BOOLEAN}
  \cup {<<Repo("a", "app", <<>>, FALSE, p, FALSE)>> : p \in BOOLEAN}

InitOpts ==
  \E d \in BOOLEAN, m \in BOOLEAN, w \in BOOLEAN, o \in {"", "org"},
     t \in {"t1", "t2"}, rs \in OptsServices :
    InitWith([BaseFlags EXCEPT !.dryRun = d, !.mirror = m,
                               !.workaround1862 = w, !.gogsOrg = o,
                               !.githubToken = t, !.args = <<"a/">>],
             rs, FALSE, {})

SpecOpts == InitOpts /\ [][Next]_vars


(***************************************************************************)
(* Fair scheduling.  main is one sequential flow and every goroutine is    *)
(* another; the Go scheduler runs each of them whenever it can take a      *)
(* step, and a remote call that is in progress returns.  A step of main    *)
(* that waits for a token stays possible once it is, since goroutines only *)
(* give tokens back, so weak fairness is what the scheduler provides.      *)
(* Nothing obliges anyone to start the program again.                      *)
(***************************************************************************)
MainStep ==
  \/ ParseFilter
  \/ NewClients
  \/ GetTokenUser
  \/ GetSourceUser
  \/ ListPage
  \/ ResolveOwner
  \/ StartBar
  \/ LoopIter
  \/ Acquire
  \/ LoopEnd
  \/ Drain
  \/ DrainEnd
  \/ Wait
  \/ BarUpdate

TaskStep(v) ==
  /\ v \in Tasks
  /\ \/ GetRepo(v)
     \/ MigrateRepo(v)
     \/ Store(v)
     \/ Increment(v)
     \/ WgDone(v)
     \/ Release(v)

Fairness ==
  /\ WF_vars(MainStep)
  /\ \A v \in 1..NumRepos : WF_vars(TaskStep(v))

(* one run of the program: the steps of main and of its goroutines *)
NextRun == MainStep \/ \E v \in 1..NumRepos : TaskStep(v)

(* live runs over 0..NumRepos candidates, all of them kept *)
InitFair ==
  \E n \in 0..NumRepos :
    InitWith([BaseFlags EXCEPT !.includeForks = TRUE, !.args = <<".*">>],
             [k \in 1..n |-> Catalog(k)], FALSE, {})

SpecFair == InitFair /\ [][NextRun]_vars /\ Fairness

(***************************************************************************)
(* Properties.                                                             *)
(***************************************************************************)
Live == ~dryRun
Aborted == pc \in {"fatal", "panic"}
Listed == pc \in {"resolve", "startBar", "loop", "acquire", "drain", "wait",
                  "update", "done"}
InFlight == {v \in Tasks : taskpc[v] \notin {"idle", "exited"}}
InRepos(r) == \E j \in 1..Len(repos) : repos[j] = r
Eligible(r) == includeForks \/ ~r.Fork

(* C1: in a live run the number of tasks in flight (token acquired for the
   task by main and not yet given back) never exceeds the limiter's size,
   whatever the number of candidates. *)
C1_ConcurrencyBound == Live => Cardinality(InFlight) <= concurrency

(* main waits for a token with the limit reached and candidates left *)
C1_Witness ==
  /\ Live
  /\ pc = "acquire"
  /\ Cardinality(InFlight) = concurrency
  /\ Len(repos) > concurrency

(* C2 as stated: in the second run, even when no lookup fails for a
   repository that exists, no migration request is issued and every
   candidate that has finished was skipped. *)
C2_SecondRunAllSkip ==
  (run = 2 /\ \A v \in Tasks : lookupRes[v] # "failed") =>
    \A v \in Tasks :
      /\ migrates[v] = 0
      /\ taskpc[v] = "exited" => lookupRes[v] = "found"

(* C2, amended: in the second run a migration request is issued for a
   candidate only if its lookup in that run returned an error; a candidate
   whose lookup finds its repository is skipped without a request; and
   every candidate whose repository the first run created is found and
   skipped unless its lookup fails. *)
C2_SecondRunSkipsExisting ==
  run = 2 =>
    \A v \in Tasks :
      /\ migrates[v] > 0 => lookupRes[v] \in {"absent", "failed"}
      /\ lookupRes[v] = "found" =>
           /\ migrates[v] = 0
           /\ sent[v] = NoOpts
           /\ taskpc[v] \notin {"migrate", "store"}
      /\ (v \in prevCreated /\ lookupRes[v] \notin {"none", "failed"}) =>
           lookupRes[v] = "found"

(* the second run is over: it skipped a repository the first run created
   and requested again one whose first migration had failed *)
C2_Witness ==
  /\ run = 2
  /\ Live
  /\ pc = "done"
  /\ \E v \in Tasks :
       v \in prevCreated /\ lookupRes[v] = "found" /\ migrates[v] = 0
  /\ \E w \in Tasks :
       w \notin prevCreated /\ lookupRes[w] = "absent" /\ migrates[w] = 1

(* C3: a failed migration request never aborts the run, and at the end of
   a live run every candidate has been dispatched and has finished, and
   every candidate whose migration succeeded has its created repository in
   its own result slot, whichever other candidates failed. *)
C3_PartialFailure ==
  /\ (\E a \in Tasks : migrateRes[a] = "err") => ~Aborted
  /\ (Live /\ pc = "done") =>
       /\ Len(taskpc) = Len(repos)
       /\ \A b \in Tasks :
            /\ taskpc[b] = "exited"
            /\ lookups[b] = 1
            /\ migrateRes[b] = "ok" => gogsRepos[b] = DestKey(b)

(* a run has ended in which the candidates before and after a successful
   one failed *)
C3_Witness ==
  /\ pc = "done"
  /\ Len(repos) >= 3
  /\ migrateRes[1] = "err"
  /\ migrateRes[2] = "ok"
  /\ migrateRes[3] = "err"
  /\ gogsRepos[2] = DestKey(2)
  /\ gogsRepos[1] = NilRepo

(* C4: with dry-run no goroutine is started, no lookup and no migration
   request is made, the progress bar is never created or advanced, and
   when the loop is over every candidate's request has been dumped. *)
C4_DryRunNoCalls ==
  dryRun =>
    /\ \A v \in Tasks :
         taskpc[v] = "idle" /\ lookups[v] = 0 /\ migrates[v] = 0
    /\ bar = NilBar
    /\ wg = 0
    /\ pc \in {"drain", "wait", "update", "done"} => Len(dumped) = Len(repos)

(* a dry run over two or more candidates has ended *)
C4_Witness == dryRun /\ pc = "done" /\ Len(dumped) >= 2

(* C5: every request dumped in dry-run equals, field for field, the
   request a live run with the same inputs passes to the migration call. *)
C5_DumpEqualsLive ==
  dryRun =>
    \A k \in 1..Len(dumped) : dumped[k] = LiveOpts(BuildOpts(repos[k]))

(* the patterns without a leading "-", and those with one, stripped *)
IncludeArgs == SelectSeq(Args, LAMBDA a : Ch(a, 1) # "-")
StripFirst(a) == SubSeq(a, 2, Len(a))
ExcludeArgs ==
  LET ex == SelectSeq(Args, LAMBDA a : Ch(a, 1) = "-")
  IN  [k \in 1..Len(ex) |-> StripFirst(ex[k])]

(* C6: once the patterns are parsed, the include set holds the arguments
   without a leading "-" and the exclude set the others, stripped; and
   once the listing is over a repository that is not dropped as a fork is
   a candidate iff its full name matches every argument without a leading
   "-" and matches no stripped "-" argument. *)
C6_FilterContract ==
  /\ (pc # "parse" /\ ~Aborted) =>
       includeFilter = IncludeArgs /\ excludeFilter = ExcludeArgs
  /\ Listed =>
       \A k \in 1..Len(ghRepos) :
         Eligible(ghRepos[k]) =>
           (InRepos(ghRepos[k]) <=>
              /\ \A j \in 1..Len(IncludeArgs) :
                   Match(IncludeArgs[j], ghRepos[k].FullName)
              /\ \A j \in 1..Len(ExcludeArgs) :
                   ~Match(ExcludeArgs[j], ghRepos[k].FullName))

(* the documented example: of three repositories one include pattern and
   one exclude pattern leave exactly acme/app *)
C6_Witness ==
  /\ pc = "done"
  /\ Args = <<"acme/.*", "-acme/secret">>
  /\ Len(ghRepos) = 3
  /\ Len(repos) = 1
  /\ repos[1].FullName = "acme/app"

(* C7 as stated: a repository is a candidate iff its name matches at least
   one include pattern (or there is none) and no exclude pattern. *)
C7_PassesIffSomeInclude ==
  Listed =>
    \A k \in 1..Len(ghRepos) :
      Eligible(ghRepos[k]) =>
        (InRepos(ghRepos[k]) <=>
           /\ \/ Len(includeFilter) = 0
              \/ \E j \in 1..Len(includeFilter) :
                   Match(includeFilter[j], ghRepos[k].FullName)
           /\ \A j \in 1..Len(excludeFilter) :
                ~Match(excludeFilter[j], ghRepos[k].FullName))

(* C7, amended: a repository is a candidate iff its name matches every
   include pattern (or there is none) and no exclude pattern, for every
   combination of overlapping include and exclude patterns. *)
C7_PassesIffEveryInclude ==
  Listed =>
    \A k \in 1..Len(ghRepos) :
      Eligible(ghRepos[k]) =>
        (InRepos(ghRepos[k]) <=>
           /\ \A j \in 1..Len(includeFilter) :
                Match(includeFilter[j], ghRepos[k].FullName)
           /\ \A j \in 1..Len(excludeFilter) :
                ~Match(excludeFilter[j], ghRepos[k].FullName))

(* two include patterns, of which a repository matches only the first: it
   is not a candidate *)
C7_Witness ==
  /\ Listed
  /\ Len(includeFilter) = 2
  /\ Len(excludeFilter) = 0
  /\ \E k \in 1..Len(ghRepos) :
       /\ Match(includeFilter[1], ghRepos[k].FullName)
       /\ ~Match(includeFilter[2], ghRepos[k].FullName)
       /\ ~InRepos(ghRepos[k])

(* the description of a source repository, empty when absent *)
SourceDesc(r) == IF r.Description.present THEN r.Description.val ELSE <<>>
DescOK(o, r) ==
  LET D == SourceDesc(r)
      T == o.Description
  IN  /\ Len(T) <= 255
      /\ Len(T) <= Len(D)
      /\ T = SubSeq(D, 1, Len(T))
      /\ Len(D) <= 255 => T = D

(* C8: the description of every request that is built (dumped, waiting for
   a token, held by a goroutine, or sent) is at most 255 long, is a prefix
   of the source description, and equals it when that is at most 255 long;
   an absent description counts as empty. *)
C8_DescriptionBound ==
  /\ \A k \in 1..Len(dumped) : DescOK(dumped[k], repos[k])
  /\ pc = "acquire" => DescOK(opts, repos[i])
  /\ \A v \in Tasks :
       /\ taskpc[v] # "idle" => DescOK(taskOpts[v], repos[v])
       /\ migrates[v] > 0 => DescOK(sent[v], repos[v])

(* a request was sent for a repository whose description is too long: it
   carries the first 255 bytes *)
C8_Witness ==
  \E v \in Tasks :
    /\ migrates[v] > 0
    /\ Len(SourceDesc(repos[v])) > 255
    /\ Len(sent[v].Description) = 255

(* C9: in a live run main is past the final wait only when every candidate
   has a goroutine that has run all its steps and returned, and the
   WaitGroup counter is zero. *)
C9_JoinBeforeExit ==
  (Live /\ pc \in {"update", "done"}) =>
    /\ wg = 0
    /\ Len(taskpc) = Len(repos)
    /\ \A v \in Tasks : taskpc[v] = "exited"

(* a live run over more candidates than tokens is past the final wait *)
C9_Witness ==
  /\ Live
  /\ pc = "update"
  /\ Len(repos) > concurrency
  /\ bar.current = Len(repos)

FatalCauses ==
  {"could not parse", "couldn't fetch GitHub user",
   "couldn't fetch GitHub repository list", "couldn't fetch Gogs user",
   "couldn't fetch Gogs Organization"}

(* C10: a run that has aborted has started no goroutine and has issued no
   lookup and no migration request, and it aborted for one of the five
   setup causes (or on an empty pattern argument); hence once a goroutine
   is started the run cannot abort. *)
C10_FatalBeforeMutation ==
  /\ Aborted =>
       /\ \A v \in Tasks :
            taskpc[v] = "idle" /\ lookups[v] = 0 /\ migrates[v] = 0
       /\ Len(taskpc) = 0
       /\ pc = "fatal" => fatalMsg \in FatalCauses
  /\ (\E v \in Tasks : taskpc[v] # "idle") => ~Aborted

(* the last abort there is: candidates are listed and the destination
   organization cannot be resolved *)
C10_Witness ==
  /\ pc = "fatal"
  /\ fatalMsg = "couldn't fetch Gogs Organization"
  /\ Len(repos) >= 2

AfterWork == {"increment", "wgDone", "release", "exited"}

(* C11: in a live run a goroutine issues its migration request only after
   its one lookup of the destination owner and the candidate's short name
   returned an error; a lookup that succeeds found that repository, and
   the goroutine then stops without a request and with its slot empty; a
   goroutine that has finished issued a request iff its lookup returned an
   error. *)
C11_ExistenceGuard ==
  Live =>
    \A v \in Tasks :
      /\ taskpc[v] \notin {"idle", "getRepo"} => lookups[v] = 1
      /\ migrates[v] > 0 => lookupRes[v] \in {"absent", "failed"}
      /\ taskpc[v] \in {"migrate", "store"} =>
           lookupRes[v] \in {"absent", "failed"}
      /\ lookupRes[v] = "found" =>
           /\ DestKey(v) \in dest
           /\ taskpc[v] \in AfterWork
           /\ migrates[v] = 0
           /\ gogsRepos[v] = NilRepo
      /\ taskpc[v] \in AfterWork =>
           (migrates[v] = 1 <=> lookupRes[v] \in {"absent", "failed"})

(* in one run a goroutine has skipped a repository that was found, and
   another has requested one that was absent; both have returned *)
C11_Witness ==
  /\ Live
  /\ \E v, w \in Tasks :
       /\ taskpc[v] = "exited" /\ lookupRes[v] = "found" /\ migrates[v] = 0
       /\ taskpc[w] = "exited" /\ lookupRes[w] = "absent" /\ migrates[w] = 1

Counted == {v \in Tasks : taskpc[v] \in {"wgDone", "release", "exited"}}

(* C12: in a live run the bar is created for as many items as there are
   candidates; its count is exactly the number of goroutines that are past
   their increment, whatever their outcome, hence never more than the
   number that have finished their work; when main is past the final wait
   the count equals the number of candidates, and the bar is finalized
   with that count. *)
C12_ProgressAccounting ==
  Live =>
    /\ pc \in {"loop", "acquire", "drain", "wait", "update", "done"} =>
         bar.created /\ bar.Total = Len(repos)
    /\ bar.current = Cardinality(Counted)
    /\ bar.current <= Cardinality({v \in Tasks : taskpc[v] \in AfterWork})
    /\ pc \in {"update", "done"} => bar.current = Len(repos)
    /\ bar.updated <=> pc = "done"

(* the bar is finalized at three or more after a run in which one
   candidate was created, one skipped and one failed *)
C12_Witness ==
  /\ Live
  /\ pc = "done"
  /\ bar.updated
  /\ bar.current >= 3
  /\ \E v \in Tasks : lookupRes[v] = "found"
  /\ \E v \in Tasks : migrateRes[v] = "ok"
  /\ \E v \in Tasks : migrateRes[v] = "err"

(* the cursor the service returns with the page at cursor c, and the
   repositories of the first m responses to the requests made *)
NextCursor(c) == ServicePage(ghRepos, c).NextPage
RECURSIVE Responses(_)
Responses(m) ==
  IF m = 0 THEN <<>>
  ELSE Responses(m - 1)
         \o ServicePage(ghRepos, pagesRequested[m].Page).pageRepos

(* C13: the first request carries cursor 0 and every later one the cursor
   returned with the previous response; no request follows a response
   whose cursor is 0, and the listing is over only after such a response;
   the candidates collected are those kept from every response received,
   the last one included. *)
C13_Paging ==
  LET n == Len(pagesRequested)
  IN  /\ \A k \in 1..n :
           pagesRequested[k].Page =
             IF k = 1 THEN 0 ELSE NextCursor(pagesRequested[k - 1].Page)
      /\ \A k \in 1..(n - 1) : NextCursor(pagesRequested[k].Page) # 0
      /\ Listed => n >= 1 /\ NextCursor(pagesRequested[n].Page) = 0
      /\ (pc = "list" /\ n >= 1) =>
           /\ NextCursor(pagesRequested[n].Page) # 0
           /\ listOpts.Page = NextCursor(pagesRequested[n].Page)
      /\ (pc = "list" \/ Listed) =>
           repos = SelectSeq(Responses(n), KeepRepo)

(* three pages were requested, and the repository of the third is a
   candidate *)
C13_Witness ==
  /\ Listed
  /\ Len(pagesRequested) >= 3
  /\ Len(ghRepos) >= 3
  /\ InRepos(ghRepos[Len(ghRepos)])

(* the fields of request o for repository r that the shim leaves alone *)
OtherFieldsOK(o, r) ==
  /\ o.CloneAddr = r.CloneURL
  /\ o.AuthUsername = githubTokenUser
  /\ o.AuthPassword = githubToken
  /\ o.UID = gogsOwnerID
  /\ o.RepoName = r.Name
  /\ o.Description = RepoDescription(r)

ShimOK(o, r) ==
  /\ ~workaround1862 => (o.Private = r.Private /\ o.Mirror = mirror)
  /\ workaround1862 => (o.Mirror = r.Private /\ o.Private = mirror)
  /\ OtherFieldsOK(o, r)
  /\ Swap1862(Swap1862(o)) = o
  /\ LET u == IF workaround1862 THEN Swap1862(o) ELSE o
     IN  u.Private = r.Private /\ u.Mirror = mirror

(* C14: every request a live run hands to a goroutine or sends carries,
   with the shim off, the candidate's private flag as visibility and the
   configured mirror flag as mirror, and with the shim on the two
   exchanged; swapping a request twice gives it back, swapping a shimmed
   request once gives the unshimmed one, and the other six fields do not
   depend on the shim. *)
C14_CompatibilityShim ==
  Live =>
    /\ pc = "acquire" => ShimOK(opts, repos[i])
    /\ \A v \in Tasks :
         /\ taskpc[v] # "idle" => ShimOK(taskOpts[v], repos[v])
         /\ migrates[v] > 0 => ShimOK(sent[v], repos[v])

(* with the shim on, a request was sent for a candidate whose private flag
   differs from the mirror flag *)
C14_Witness ==
  /\ workaround1862
  /\ \E v \in Tasks :
       /\ migrates[v] > 0
       /\ repos[v].Private # mirror
       /\ sent[v].Mirror = repos[v].Private
       /\ sent[v].Private = mirror

(* C15: within a live run every candidate gets at most one lookup and at
   most one migration request; a goroutine whose request failed has issued
   exactly one, is past its work, and its result slot is and stays empty. *)
C15_NoRetry ==
  Live =>
    \A v \in Tasks :
      /\ lookups[v] <= 1
      /\ migrates[v] <= 1
      /\ migrateRes[v] = "err" =>
           /\ migrates[v] = 1
           /\ taskpc[v] \in AfterWork
           /\ gogsRepos[v] = NilRepo

(* a run has ended in which the one request for an absent repository
   failed *)
C15_Witness ==
  /\ Live
  /\ pc = "done"
  /\ \E v \in Tasks :
       /\ lookupRes[v] = "absent"
       /\ migrateRes[v] = "err"
       /\ lookups[v] = 1
       /\ migrates[v] = 1
       /\ gogsRepos[v] = NilRepo

SlotsInv ==
  /\ pc \in {"loop", "acquire", "drain", "wait", "update", "done"} =>
       Len(gogsRepos) = Len(repos)
  /\ \A v \in 1..Len(gogsRepos) :
       gogsRepos[v] # NilRepo =>
         /\ migrateRes[v] = "ok"
         /\ taskpc[v] \in AfterWork
         /\ gogsRepos[v] = gogsRepo[v]
  /\ (Live /\ pc = "done") =>
       \A v \in 1..Len(gogsRepos) :
         gogsRepos[v] # NilRepo <=> migrateRes[v] = "ok"

SlotsStep ==
  \A v \in (DOMAIN gogsRepos) \cap (DOMAIN gogsRepos') :
    gogsRepos'[v] # gogsRepos[v] =>
      /\ gogsRepos[v] = NilRepo
      /\ taskpc[v] = "store"
      /\ taskpc'[v] = "increment"
      /\ \A w \in (DOMAIN gogsRepos) \ {v} :
           gogsRepos'[w] = gogsRepos[w] /\ taskpc'[w] = taskpc[w]

(* C16: there is one result slot per candidate; a slot that is not empty
   holds the repository returned to its own goroutine, whose migration
   succeeded; at the end of a live run a slot is non-empty iff its
   candidate's migration succeeded; and a slot changes only by the store
   step of its own goroutine, once, from empty, with every other slot
   left as it was. *)
C16_ResultSlots == [](SlotsInv) /\ [][SlotsStep]_vars

(* a run has ended with two slots filled and the slot of a skipped
   candidate empty *)
C16_Witness ==
  /\ Live
  /\ pc = "done"
  /\ \E v, w, u \in Tasks :
       /\ v # w
       /\ gogsRepos[v] # NilRepo
       /\ gogsRepos[w] # NilRepo
       /\ gogsRepos[u] = NilRepo
       /\ lookupRes[u] = "found"

(* a returned repository that the listing is to keep *)
Wanted(r) ==
  /\ includeForks \/ ~r.Fork
  /\ \A j \in 1..Len(includeFilter) : Match(includeFilter[j], r.FullName)
  /\ \A j \in 1..Len(excludeFilter) : ~Match(excludeFilter[j], r.FullName)

(* C17: once the listing is over the candidate list is the subsequence, in
   listing order over all pages, of the returned repositories that are not
   forks (unless forks are included) and pass the filter; in particular a
   fork is not a candidate when forks are not included, and the list is no
   longer than what the service returned. *)
C17_CandidateList ==
  Listed =>
    /\ repos = SelectSeq(ghRepos, Wanted)
    /\ ~includeForks => \A k \in 1..Len(repos) : ~repos[k].Fork
    /\ Len(repos) <= Len(ghRepos)

(* the listing took three pages; without fork inclusion a fork that
   matches the one include pattern was dropped and another repository
   that matches it was kept *)
C17_Witness ==
  /\ Listed
  /\ ~includeForks
  /\ Len(includeFilter) = 1
  /\ Len(pagesRequested) >= 3
  /\ Len(repos) >= 1
  /\ \E k \in 1..Len(ghRepos) :
       /\ ghRepos[k].Fork
       /\ Match(includeFilter[1], ghRepos[k].FullName)
       /\ ~InRepos(ghRepos[k])

Terminated ==
  \/ Aborted
  \/ /\ pc = "done"
     /\ sem = concurrency
     /\ wg = 0
     /\ \A v \in Tasks : taskpc[v] = "exited"

(* C18: under fair scheduling, with every remote call returning, every
   run that is started ends: main either aborts during setup or reaches
   its end having acquired every token of the limiter and passed the wait
   on the counter, with every goroutine returned, for 0..NumRepos
   candidates (none, fewer than, as many as, and more than the limit). *)
C18_Termination == (pc = "parse") ~> Terminated

(* a live run over more candidates than tokens has ended, main holding
   every token *)
C18_Witness ==
  /\ Live
  /\ pc = "done"
  /\ Len(repos) > concurrency
  /\ sem = concurrency
  /\ \A v \in Tasks : taskpc[v] = "exited"

NoFailedLookup == \A v \in Tasks : lookupRes[v] # "failed"

OneRequestPerName ==
  (Live /\ NoFailedLookup) =>
    \A v, w \in Tasks :
      (v # w /\ migrates[v] > 0 /\ migrates[w] > 0) => DestKey(v) # DestKey(w)

RequestOnlyAbsent ==
  (Live /\ NoFailedLookup) =>
    \A v \in Tasks \cap (DOMAIN migrates') :
      migrates'[v] > migrates[v] => DestKey(v) \notin dest

(* C19: in a live run, even when no lookup fails for a repository that
   exists, at most one migration request is issued per destination name
   (owner and short name), and none for a name that is on the target when
   the request is made, also for candidates of different source owners
   that share a short name and run concurrently. *)
C19_NoDuplicateCreation == [](OneRequestPerName) /\ [][RequestOnlyAbsent]_vars

====
